---------------------------- MODULE Spec2Model ----------------------------
(***************************************************************************)
(* The SSH tunnel manager of remote-docker (backend main.go): a registry   *)
(* of SSH master connections keyed by user@host, guarded by one mutex,     *)
(* with lazy connection from ExecuteCommand, liveness probing, an idle     *)
(* reaper and a bulk close.                                                *)
(*                                                                         *)
(* The external ssh client is the environment.  What the code can observe  *)
(* of it is modelled by nondeterministic outcomes:                         *)
(*   - a master process, once started, may die at any time, removing its   *)
(*     control socket or leaving it stale;                                 *)
(*   - a command sent through a control socket (probe, remote command,     *)
(*     "-O exit") can succeed only while a running master is bound to the  *)
(*     socket, and may fail at any time (timeout, network, exit status);   *)
(*   - Process.Kill() on the exec.Cmd handle may or may not end the master *)
(*     (the master is started with ControlPersist=yes and detaches from    *)
(*     the started process); the code ignores Kill's result.               *)
(***************************************************************************)
EXTENDS Integers, Sequences, FiniteSets, Bags, TLC

\* ------------------------------------------------------------- bounds
\* Master processes that exist at one time (running, or held by a record).
MaxProcs == 2

\* ------------------------------------------------------------- constants
\* (username, hostname) pairs the callers use.
Pairs == {<<"alice", "h1">>, <<"bob", "h2">>}

connectionKey(username, hostname) == username \o "@" \o hostname

\* The strings that requests carry as username and as hostname, and the
\* pairs of them that a handler passes on: `if req.Hostname == "" ||
\* req.Username == ""` answers the others with a 400.
Usernames == {"", "a", "a@b"}
Hostnames == {"", "c", "b@c"}
Accepted == {p \in Usernames \X Hostnames : p[1] # "" /\ p[2] # ""}

Keys == {connectionKey(p[1], p[2]) : p \in Pairs \cup Accepted}

Requests == {"t1", "t2"}
Reaper == "reaper"
Shutdown == "shutdown"
Tasks == Requests \cup {Reaper, Shutdown}

NoTask == "none"
\* idleTimeout of the cleanup routine, in clock ticks of ten minutes.
IdleTimeout == 1

\* A record's LastUsed is kept as its age, time.Now().Sub(conn.LastUsed) in
\* ticks, which stops counting once past the idle timeout.
MaxAge == IdleTimeout + 1

\* A nil []byte.
NoOutput == ""

NoRec == [Active |-> FALSE, Age |-> 0, Present |-> FALSE]

VARIABLES
    activeConnections,  \* m.activeConnections: key -> record (NoRec: no entry)
    mutex,              \* m.mutex: the task holding it, or NoTask
    procs,              \* the master processes the pool started, a bag: a process
                        \* is told from another by its key, by what the pool did
                        \* with it and by the socket, not by a pid; one that has
                        \* exited and that no record holds is forgotten
    sockets,            \* control socket file of each key: Bound to a running
                        \* master, Stale: left by a dead master, 0: no file
    pc,                 \* each task's position
    key,                \* each task's key argument
    nested,             \* the task's OpenConnection was called by ExecuteCommand
    cmd,                \* OpenConnection's local cmd: 1 once it has started a process
    ret,                \* what the task's last call returned
    output,             \* the []byte that the call returned with it
    todo,               \* keys a teardown loop still has to visit
    due,                \* history: the keys whose record was older than the idle
                        \* timeout at `now := time.Now()` of the reaper's cycle
    stale,              \* ExecuteCommand's lookup reused a record whose master was dead
    onlyExec,           \* history: only ExecuteCommand has acted on the key so far
    sinceOpen,          \* history: OpenConnection returned nil for the key, and no
                        \* teardown or failed probe of the key followed
    story,              \* history: how far the calls that returned on a watched
                        \* key follow open, execute, close, probe, execute, and
                        \* the connections established for the key meanwhile
    callers,            \* load: the request handlers that run concurrently
    hosts               \* load: the (username, hostname) pairs they address

vars == <<activeConnections, mutex, procs, sockets, pc, key, nested, cmd,
          ret, output, todo, due, stale, onlyExec, sinceOpen, story,
          callers, hosts>>

\* The loads explored: two concurrent handlers on one key, and one handler on
\* two keys; the reaper and the shutdown task run in both.
SameHost == [callers |-> Requests, hosts |-> {<<"alice", "h1">>}, watch |-> {}]
TwoHosts == [callers |-> {"t1"}, hosts |-> Pairs, watch |-> {}]
\* One handler on one key, whose calls are followed as a story.
OneStory == [callers |-> {"t1"}, hosts |-> {<<"alice", "h1">>},
             watch |-> {connectionKey("alice", "h1")}]

Stale == -1
Bound == 1

\* The variables of the pool and of its environment.
pool == <<activeConnections, mutex, procs, sockets>>
\* The locals of the tasks, and the load.
locals == <<pc, key, nested, cmd, ret, output, stale, callers, hosts>>

\* ------------------------------------------------------------- records
\* (mutant) the record is made without `LastUsed: time.Now()`: the zero time.
SSHConnectionNoTime == [Active |-> TRUE, Age |-> MaxAge, Present |-> TRUE]

\* A record made now: `LastUsed: time.Now(), Active: true`.  Its Cmd is the
\* process of its key that procs marks "registered".
SSHConnection == [Active |-> TRUE, Age |-> 0, Present |-> TRUE]

\* `conn, exists := m.activeConnections[key]`
Exists(k) == activeConnections[k].Present

\* `exists && conn.Active`
IsActive(k) == activeConnections[k].Present /\ activeConnections[k].Active

\* (mutant) LastUsed is set to a time before the idle timeout.
TouchBackdates(k) == [activeConnections EXCEPT ![k].Age = MaxAge]

\* conn.LastUsed = time.Now()
Touch(k) == [activeConnections EXCEPT ![k].Age = 0]

\* delete(m.activeConnections, key)
Delete(k) == [activeConnections EXCEPT ![k] = NoRec]

\* ------------------------------------------------------------- processes
\* A process started by cmd.Start() for key k.
NewProc(k) == [key |-> k, running |-> TRUE, hist |-> "starting", bound |-> FALSE]

\* The master of k that the test command found connected: it runs, bound to
\* the socket, and the record stored for k holds it.
Master(k) == [key |-> k, running |-> TRUE, hist |-> "registered", bound |-> TRUE]

\* How many processes of the bag ps are like p.
Count(ps, p) == IF p \in DOMAIN ps THEN ps[p] ELSE 0

\* The bag ps with one more process p, and with one less.
Put(ps, p) ==
    [q \in DOMAIN ps \cup {p} |-> Count(ps, q) + (IF q = p THEN 1 ELSE 0)]
Take(ps, p) ==
    [q \in {r \in DOMAIN ps : r # p \/ ps[r] > 1} |->
        IF q = p THEN ps[q] - 1 ELSE ps[q]]

\* The bag ps with one process p turned into q.
Become(ps, p, q) == Put(Take(ps, p), q)

\* The processes of ps that are in the set S.
Those(ps, S) == [p \in DOMAIN ps \cap S |-> ps[p]]

\* The bag ps with every process p turned into f[p].
Each(ps, f) ==
    [q \in {f[p] : p \in DOMAIN ps} |->
        BagCardinality(Those(ps, {p \in DOMAIN ps : f[p] = q}))]

\* p is a running process.
Running(p) == p.running

\* conn.Cmd of the record of k: the process the record was stored with.
Cmd(k) == {p \in DOMAIN procs : p.key = k /\ p.hist = "registered"}

\* A running master is bound to the control socket of k.
Served(k) == \E p \in DOMAIN procs : p.key = k /\ p.bound /\ p.running

\* The running masters the pool started for k.
RunningFor(k) == Those(procs, {p \in DOMAIN procs : p.key = k /\ p.running})

\* The process table ps once registry reg is in place: a process that has
\* exited and that no record holds is forgotten, and one whose record is gone
\* from reg without a teardown is held by nothing ("dropped").
Collect(ps, reg) ==
    LET Held(p) == p.hist = "registered" /\ reg[p.key].Present
        known == Those(ps, {p \in DOMAIN ps : p.running \/ Held(p)})
    IN  Each(known, [p \in DOMAIN known |->
            IF p.hist = "registered" /\ ~Held(p)
            THEN [p EXCEPT !.hist = "dropped"] ELSE p])

\* The processes once the socket file of k is removed: none is bound to it.
Unbind(ps, k) ==
    Each(ps, [p \in DOMAIN ps |->
        IF p.key = k THEN [p EXCEPT !.bound = FALSE] ELSE p])

\* os.Stat(controlPath) succeeds, then os.Remove(controlPath)
RemoveSocket(k) == [sockets EXCEPT ![k] = 0]

SetAt(f, t, v) == [f EXCEPT ![t] = v]

\* (mutant) m.mutex.Lock() returns whoever holds the mutex.
LockAlways == TRUE

\* m.mutex.Lock() can return: nobody holds the mutex.
CanLock == mutex = NoTask

\* ------------------------------------------------------------- environment
\* A tick of the clock: every record is one tick older.
Tick ==
    /\ \E k \in Keys : Exists(k) /\ activeConnections[k].Age < MaxAge
    /\ activeConnections' =
        [k \in Keys |->
            IF Exists(k) /\ activeConnections[k].Age < MaxAge
            THEN [activeConnections[k] EXCEPT !.Age = @ + 1]
            ELSE activeConnections[k]]
    /\ UNCHANGED <<mutex, procs, sockets, locals, todo, due, onlyExec, sinceOpen, story>>

\* A master dies outside the pool's control (one still being established
\* is covered by the failing test command); a crash leaves its socket file.
ProcDies(p) ==
    /\ Running(p)
    /\ p.hist # "starting"
    /\ procs' = Collect(Become(procs, p, [p EXCEPT !.running = FALSE,
                                                  !.bound = FALSE]),
                        activeConnections)
    /\ IF p.bound
       THEN \E left \in {0, Stale} : sockets' = [sockets EXCEPT ![p.key] = left]
       ELSE UNCHANGED sockets
    /\ UNCHANGED <<activeConnections, mutex, locals, todo, due, onlyExec, sinceOpen, story>>

\* ------------------------------------------------------------- the story of a key
\* No story is followed for the key; and the story of a key before any call.
Unwatched == [stage |-> "off", events |-> 0]
Fresh == [stage |-> "fresh", events |-> 0]

\* The stories st after r came back from an operation on k: the next stage
\* when r is what the story expects next (OpenConnection nil, ExecuteCommand
\* without error, CloseConnection nil, IsConnectionActive false,
\* ExecuteCommand without error), the end of the story on anything else.
Tells(st, k, r) ==
    LET at == st[k].stage
        next == CASE at = "fresh" /\ r = "open_ok" -> "opened"
                  [] at = "opened" /\ r = "exec_ok" -> "used"
                  [] at = "used" /\ r = "close_ok" -> "closed"
                  [] at = "closed" /\ r = "false" -> "probed"
                  [] at = "probed" /\ r = "exec_ok" -> "done"
                  [] OTHER -> "off"
    IN  [st EXCEPT ![k] = IF next = "off" THEN Unwatched
                          ELSE [stage |-> next, events |-> @.events]]

\* The stories once a connection is established for k (the test command of
\* OpenConnection succeeded and the record is stored).
Counted(k) ==
    [story EXCEPT ![k].events = IF story[k].stage = "off" THEN 0 ELSE @ + 1]

\* The stories after a step of request t on key k, from the stories st: a
\* call that returns tells its result, one that panics ends the story.
Observes(t, k, st) ==
    story' = IF pc'[t] = "idle" THEN Tells(st, k, ret'[t])
             ELSE IF pc'[t] = "panicked" THEN Tells(st, k, "panic")
             ELSE st

\* ------------------------------------------------------------- returns
\* A call returns r, and the bytes o, to the handler, whose locals go out of
\* scope.
ReturnWith(t, r, o) ==
    /\ pc' = SetAt(pc, t, "idle")
    /\ ret' = SetAt(ret, t, r)
    /\ output' = SetAt(output, t, o)
    /\ nested' = SetAt(nested, t, FALSE)
    /\ cmd' = SetAt(cmd, t, 0)
    /\ stale' = SetAt(stale, t, FALSE)

\* A call returns r and no bytes.
Return(t, r) == ReturnWith(t, r, NoOutput)

\* ------------------------------------------------------------- OpenConnection
\* (mutant) the reuse check is missing.
OpenReusesNever(k) == FALSE

\* `if conn, exists := m.activeConnections[key]; exists && conn.Active`
OpenReuses(k) == IsActive(k)

\* OpenConnection returns nil to ExecuteCommand, which goes on to lock again.
OpenNilGoesOn(t) ==
    /\ pc' = SetAt(pc, t, "exec_relock")
    /\ UNCHANGED <<ret, output, nested, cmd, stale>>

\* (mutant) ExecuteCommand ignores OpenConnection's error.
OpenErrorGoesOn(t) ==
    IF nested[t] THEN OpenNilGoesOn(t) ELSE Return(t, "open_failed")

\* (mutant) ExecuteCommand calls OpenConnection again after its error.
OpenErrorRetries(t) ==
    IF nested[t]
    THEN pc' = SetAt(pc, t, "exec_open") /\ UNCHANGED <<ret, output, nested, cmd, stale>>
    ELSE Return(t, "open_failed")

\* OpenConnection returns an error: a handler reports it, and ExecuteCommand
\* returns `failed to open connection` without going on.
OpenError(t) ==
    Return(t, IF nested[t] THEN "connect_failed" ELSE "open_failed")

\* OpenConnection returns nil.
OpenNil(t) == IF nested[t] THEN OpenNilGoesOn(t) ELSE Return(t, "open_ok")

\* Lock, the reuse check, and on a miss the stale socket's removal and
\* cmd.Start(), which may fail.
OpenBody(t, k) ==
    /\ CanLock
    /\ IF OpenReuses(k)
       THEN /\ activeConnections' = Touch(k)
            /\ OpenNil(t)
            /\ sinceOpen' = [sinceOpen EXCEPT ![k] = TRUE]
            /\ UNCHANGED <<mutex, procs, sockets>>
       ELSE /\ sockets' = RemoveSocket(k)
            /\ \/ /\ BagCardinality(procs) < MaxProcs
                  /\ procs' = Put(Unbind(procs, k), NewProc(k))
                  /\ cmd' = SetAt(cmd, t, 1)
                  /\ mutex' = t
                  /\ pc' = SetAt(pc, t, "open_establish")
                  /\ ret' = SetAt(ret, t, "none")
                  /\ output' = SetAt(output, t, NoOutput)
                  /\ UNCHANGED <<nested, stale>>
               \/ /\ OpenError(t)
                  /\ procs' = Unbind(procs, k)
                  /\ UNCHANGED mutex
            /\ UNCHANGED <<activeConnections, sinceOpen>>
    /\ UNCHANGED <<todo, due, callers, hosts>>
    /\ Observes(t, k, story)

\* A handler calls OpenConnection(username, hostname).
OpenConnection(t, pair) ==
    /\ pc[t] = "idle"
    /\ key' = SetAt(key, t, connectionKey(pair[1], pair[2]))
    /\ onlyExec' = [onlyExec EXCEPT ![key'[t]] = FALSE]
    /\ OpenBody(t, key'[t])

\* ExecuteCommand, having unlocked, calls OpenConnection.
ExecOpen(t) ==
    /\ pc[t] = "exec_open"
    /\ OpenBody(t, key[t])
    /\ UNCHANGED <<key, onlyExec>>

\* (mutant) the record is stored without `Active: true`.
RegisterInactive(k) ==
    [activeConnections EXCEPT ![k] = [SSHConnection EXCEPT !.Active = FALSE]]

\* `m.activeConnections[key] = &SSHConnection{..., LastUsed: time.Now(), Active: true}`
Register(k) == [activeConnections EXCEPT ![k] = SSHConnection]

\* The processes once the map entry of k is overwritten: the process of the
\* old record is held by nothing.
Replaced(ps, k) ==
    Each(ps, [p \in DOMAIN ps |->
        IF p.key = k /\ p.hist = "registered"
        THEN [p EXCEPT !.hist = "replaced"] ELSE p])

\* The one-second sleep, the test command, and what follows it.
OpenFinish(t) ==
    /\ pc[t] = "open_establish"
    /\ mutex = t
    /\ cmd[t] = 1
    /\ LET k == key[t]
           p == NewProc(k) IN
       \/ \* the master connected and bound its socket; the test command succeeded
          /\ sockets' = [sockets EXCEPT ![k] = Bound]
          /\ activeConnections' = Register(k)
          /\ procs' = Collect(Become(Replaced(procs, k), p, Master(k)),
                              activeConnections')
          /\ sinceOpen' = [sinceOpen EXCEPT ![k] = TRUE]
          /\ OpenNil(t)
          /\ Observes(t, k, Counted(k))
       \/ \* the test command failed; cmd.Process.Kill() ended the master
          /\ procs' = Take(procs, p)
          /\ OpenError(t)
          /\ Observes(t, k, story)
          /\ UNCHANGED <<activeConnections, sockets, sinceOpen>>
       \/ \* the test command failed; the detached master survived Kill()
          /\ procs' = Become(procs, p, [p EXCEPT !.hist = "rejected",
                                                 !.bound = TRUE])
          /\ sockets' = [sockets EXCEPT ![k] = Bound]
          /\ OpenError(t)
          /\ Observes(t, k, story)
          /\ UNCHANGED <<activeConnections, sinceOpen>>
    /\ mutex' = NoTask
    /\ UNCHANGED <<key, todo, due, onlyExec, callers, hosts>>

\* ------------------------------------------------------------- ExecuteCommand
\* (mutant) ExecuteCommand opens a connection only when there is no record.
ExecNeedsOpenAbsentOnly(k) == ~Exists(k)

\* `if !exists || !conn.Active`
ExecNeedsOpen(k) == ~IsActive(k)

\* A handler calls ExecuteCommand: lock, lookup; on a hit the timestamp and
\* the unlock, on a miss the unlock before OpenConnection.
ExecuteCommand(t, pair) ==
    /\ pc[t] = "idle"
    /\ CanLock
    /\ LET k == connectionKey(pair[1], pair[2]) IN
       /\ key' = SetAt(key, t, k)
       /\ ret' = SetAt(ret, t, "none")
       /\ output' = SetAt(output, t, NoOutput)
       /\ IF ExecNeedsOpen(k)
          THEN /\ pc' = SetAt(pc, t, "exec_open")
               /\ nested' = SetAt(nested, t, TRUE)
               /\ UNCHANGED <<activeConnections, stale>>
          ELSE /\ activeConnections' = Touch(k)
               /\ pc' = SetAt(pc, t, "exec_run")
               /\ stale' = SetAt(stale, t, \A p \in Cmd(k) : ~Running(p))
               /\ UNCHANGED nested
    /\ UNCHANGED <<mutex, procs, sockets, cmd, todo, due, onlyExec, sinceOpen, story,
                   callers, hosts>>

\* Lock again after OpenConnection returned nil.  `conn = m.activeConnections[key]`
\* is nil when the entry is gone, and `conn.LastUsed = ...` then panics with the
\* mutex held (the unlock is not deferred).
ExecRelock(t) ==
    /\ pc[t] = "exec_relock"
    /\ CanLock
    /\ LET k == key[t] IN
       IF Exists(k)
       THEN /\ activeConnections' = Touch(k)
            /\ pc' = SetAt(pc, t, "exec_run")
            /\ UNCHANGED <<mutex, ret, output>>
       ELSE /\ mutex' = t
            /\ pc' = SetAt(pc, t, "panicked")
            /\ ret' = SetAt(ret, t, "panic")
            /\ output' = SetAt(output, t, NoOutput)
            /\ UNCHANGED activeConnections
    /\ UNCHANGED <<procs, sockets, key, nested, cmd, todo, due, stale, onlyExec,
                   sinceOpen, callers, hosts>>
    /\ Observes(t, key[t], story)

\* What cmd.CombinedOutput() can give for a command through the socket of k:
\* the ssh client fails by itself at any time, with its own message; with a
\* running master behind the socket the remote command runs, and it exits
\* with status zero or not, having written its output.
CommandResults(k) ==
    {[out |-> "ssh: control socket", failed |-> TRUE]}
    \cup (IF Served(k)
          THEN {[out |-> "stdout", failed |-> FALSE],
                [out |-> "stdout stderr", failed |-> TRUE]}
          ELSE {})

\* (mutant) ExecuteCommand returns nil bytes with the error of a failed command.
ExecReturnsNoOutput(t, r) ==
    ReturnWith(t, IF r.failed THEN "exec_failed" ELSE "exec_ok",
               IF r.failed THEN NoOutput ELSE r.out)

\* `return cmd.CombinedOutput()`: the bytes and the error as they are.
ExecReturns(t, r) ==
    ReturnWith(t, IF r.failed THEN "exec_failed" ELSE "exec_ok", r.out)

\* cmd.CombinedOutput() through the control socket, outside the lock; the
\* output and the error go back to the caller and the registry is not touched.
ExecRun(t) ==
    /\ pc[t] = "exec_run"
    /\ \E r \in CommandResults(key[t]) : ExecReturns(t, r)
    /\ UNCHANGED <<pool, key, todo, due, onlyExec, sinceOpen, callers, hosts>>
    /\ Observes(t, key[t], story)

\* ------------------------------------------------------------- teardown
\* How `ssh -O exit` and, after its failure, Process.Kill() came out.
Outcomes == {"graceful", "killed", "kill_failed"}

\* The outcomes the environment allows for the record of k: the exit command
\* succeeds only on a socket with a running master behind it.
Possible(k, o) == o = "graceful" => Served(k)

\* The processes after the exit command and the kill: the master behind the
\* socket exits on "graceful"; conn.Cmd.Process is killed on "killed".  The
\* record's process is marked with the operation that tore it down.
TeardownProcs(k, o, by) ==
    LET Ends(p) ==
            CASE o = "graceful" -> p.key = k /\ p.bound /\ p.running
              [] o = "killed" -> p \in Cmd(k)
              [] OTHER -> FALSE
    IN  Each(procs, [p \in DOMAIN procs |->
            [p EXCEPT !.running = IF Ends(p) THEN FALSE ELSE @,
                      !.hist = IF p \in Cmd(k) THEN by ELSE @]])

\* (mutant) the record is kept when the kill had no effect.
EvictUnlessKillFailed(k, o) ==
    IF o = "kill_failed" THEN activeConnections ELSE Delete(k)

\* `conn.Active = false; delete(m.activeConnections, key)` after any outcome.
Evict(k, o) == Delete(k)

\* ------------------------------------------------------------- CloseConnection
\* (mutant) CloseConnection reports a teardown whose kill had no effect.
CloseReportsFailure(t, o) ==
    Return(t, IF o = "kill_failed" THEN "close_failed" ELSE "close_ok")

\* `return nil`: the early return (o = "none") and the one after a teardown
\* that came out as o.
CloseNil(t, o) == Return(t, "close_ok")

\* (mutant) CloseConnection returns early only when there is no record.
CloseSkipsAbsentOnly(k) == ~Exists(k)

\* `if !exists || !conn.Active`
CloseSkips(k) == ~IsActive(k)

\* A handler calls CloseConnection: lock, lookup,
\* `if !exists || !conn.Active { return nil }`, then the exit command starts.
CloseConnection(t, pair) ==
    /\ pc[t] = "idle"
    /\ CanLock
    /\ LET k == connectionKey(pair[1], pair[2]) IN
       /\ key' = SetAt(key, t, k)
       /\ onlyExec' = [onlyExec EXCEPT ![k] = FALSE]
       /\ IF CloseSkips(k)
          THEN /\ CloseNil(t, "none")
               /\ UNCHANGED mutex
          ELSE /\ mutex' = t
               /\ pc' = SetAt(pc, t, "close_exit")
               /\ ret' = SetAt(ret, t, "none")
               /\ output' = SetAt(output, t, NoOutput)
               /\ UNCHANGED <<nested, cmd, stale>>
    /\ UNCHANGED <<activeConnections, procs, sockets, todo, due, sinceOpen,
                   callers, hosts>>
    /\ Observes(t, key'[t], story)

\* The exit command, the kill, the socket's removal, the delete, the unlock.
CloseFinish(t) ==
    /\ pc[t] = "close_exit"
    /\ mutex = t
    /\ \E o \in Outcomes :
        /\ Possible(key[t], o)
        /\ activeConnections' = Evict(key[t], o)
        /\ procs' = Collect(Unbind(TeardownProcs(key[t], o, "closed"), key[t]),
                            activeConnections')
        /\ sockets' = RemoveSocket(key[t])
        /\ CloseNil(t, o)
    /\ mutex' = NoTask
    /\ sinceOpen' = [sinceOpen EXCEPT ![key[t]] = FALSE]
    /\ UNCHANGED <<key, todo, due, onlyExec, callers, hosts>>
    /\ Observes(t, key[t], story)

\* ------------------------------------------------------------- IsConnectionActive
\* (mutant) IsConnectionActive reports a key without an Active record as active.
NotActiveSaysTrue(t) == Return(t, "true")

\* `if !exists || !conn.Active { return false }`
NotActive(t) == Return(t, "false")

\* A handler calls IsConnectionActive: lock, lookup,
\* `if !exists || !conn.Active { return false }`, then the test command starts.
IsConnectionActive(t, pair) ==
    /\ pc[t] = "idle"
    /\ CanLock
    /\ LET k == connectionKey(pair[1], pair[2]) IN
       /\ key' = SetAt(key, t, k)
       /\ onlyExec' = [onlyExec EXCEPT ![k] = FALSE]
       /\ IF IsActive(k)
          THEN /\ mutex' = t
               /\ pc' = SetAt(pc, t, "isactive_probe")
               /\ ret' = SetAt(ret, t, "none")
               /\ output' = SetAt(output, t, NoOutput)
               /\ UNCHANGED <<nested, cmd, stale>>
          ELSE /\ NotActive(t)
               /\ UNCHANGED mutex
    /\ UNCHANGED <<activeConnections, procs, sockets, todo, due, sinceOpen,
                   callers, hosts>>
    /\ Observes(t, key'[t], story)

\* The registry after testCmd.Run() failed: `conn.Active = false`; the entry
\* stays in the map.
Broken(k) == [activeConnections EXCEPT ![k].Active = FALSE]

\* (mutant) a successful probe counts as a use of the connection.
AliveTouches(k) == Touch(k)

\* The registry after testCmd.Run() succeeded: `return true`, nothing written.
Alive(k) == activeConnections

\* testCmd.Run() and the unlock.
IsActiveFinish(t) ==
    /\ pc[t] = "isactive_probe"
    /\ mutex = t
    /\ \/ /\ Served(key[t])
          /\ Return(t, "true")
          /\ activeConnections' = Alive(key[t])
          /\ UNCHANGED sinceOpen
       \/ /\ Return(t, "false")
          /\ activeConnections' = Broken(key[t])
          /\ sinceOpen' = [sinceOpen EXCEPT ![key[t]] = FALSE]
    /\ mutex' = NoTask
    /\ UNCHANGED <<procs, sockets, key, todo, due, onlyExec, callers, hosts>>
    /\ Observes(t, key[t], story)

\* ------------------------------------------------------------- GetActiveConnections
\* The keys in the order in which a listing is written down.
KeyOrder == <<connectionKey("alice", "h1"), connectionKey("bob", "h2"),
              connectionKey("a", "c"), connectionKey("a", "b@c"),
              connectionKey("a@b", "b@c")>>

\* The list of the keys of S that are among the first n of KeyOrder, as text
\* (the []string that listTunnels puts in its response; Go's map iteration
\* gives the keys in any order, the text has them in this one).
RECURSIVE Listing(_, _)
Listing(S, n) ==
    IF n = 0 THEN "list:"
    ELSE Listing(S, n - 1) \o (IF KeyOrder[n] \in S THEN KeyOrder[n] \o "," ELSE "")

\* The listing of every set of keys.
Listings == [S \in SUBSET Keys |-> Listing(S, Len(KeyOrder))]

\* (mutant) the loop appends the key of every record.
ListableAny(k) == Exists(k)

\* `for key, conn := range m.activeConnections { if conn.Active {`
Listable(k) == Exists(k) /\ activeConnections[k].Active

\* A handler calls GetActiveConnections: lock, the keys of the records with
\* `conn.Active`, unlock.
GetActiveConnections(t) ==
    /\ pc[t] = "idle"
    /\ CanLock
    /\ Return(t, Listings[{k \in Keys : Listable(k)}])
    /\ UNCHANGED <<pool, key, todo, due, onlyExec, sinceOpen, story, callers, hosts>>

\* ------------------------------------------------------------- CleanupIdleConnections
\* (mutant) the reaper closes every Active record, whatever its LastUsed.
IdleWhateverAge(k) == IsActive(k)

\* `conn.Active && now.Sub(conn.LastUsed) > idleTimeout`
Idle(k) == IsActive(k) /\ activeConnections[k].Age > IdleTimeout

\* The ticker fires: lock, `now := time.Now()`, the records the loop will
\* close (a cycle that finds none only locks and unlocks).
CleanupStart ==
    /\ pc[Reaper] = "idle"
    /\ CanLock
    /\ \E k \in Keys : Idle(k)
    /\ todo' = {k \in Keys : Idle(k)}
    /\ due' = {k \in Keys : Exists(k) /\ activeConnections[k].Age > IdleTimeout}
    /\ mutex' = Reaper
    /\ pc' = SetAt(pc, Reaper, "cleanup_loop")
    /\ UNCHANGED <<activeConnections, procs, sockets, key, nested, cmd, ret, output,
                   stale, onlyExec, sinceOpen, story, callers, hosts>>

\* One iteration of the loop; the unlock after the last one.
CleanupStep ==
    /\ pc[Reaper] = "cleanup_loop"
    /\ mutex = Reaper
    /\ \E k \in todo, o \in Outcomes :
        /\ Possible(k, o)
        /\ activeConnections' = Evict(k, o)
        /\ procs' = Collect(Unbind(TeardownProcs(k, o, "reaped"), k),
                            activeConnections')
        /\ sockets' = RemoveSocket(k)
        /\ todo' = todo \ {k}
        /\ onlyExec' = [onlyExec EXCEPT ![k] = FALSE]
        /\ sinceOpen' = [sinceOpen EXCEPT ![k] = FALSE]
        /\ story' = Tells(story, k, "reaped")
    /\ IF todo' = {}
       THEN mutex' = NoTask /\ pc' = SetAt(pc, Reaper, "idle") /\ due' = {}
       ELSE UNCHANGED <<mutex, pc, due>>
    /\ UNCHANGED <<key, nested, cmd, ret, output, stale, callers, hosts>>

\* ------------------------------------------------------------- CloseAllConnections
\* (mutant) the new map has an empty record under every key.
ClearLeavesKeys == [k \in Keys |-> [NoRec EXCEPT !.Present = TRUE]]

\* `m.activeConnections = make(map[string]*SSHConnection)`
Clear == [k \in Keys |-> NoRec]

\* Lock and the records the loop will close (`if conn.Active`); with none, the
\* map is cleared at once.
CloseAllStart ==
    /\ pc[Shutdown] = "idle"
    /\ CanLock
    /\ todo' = {k \in Keys : IsActive(k)}
    /\ IF todo' = {}
       THEN /\ activeConnections' = Clear
            /\ procs' = Collect(procs, Clear)
            /\ pc' = SetAt(pc, Shutdown, "done")
            /\ UNCHANGED mutex
       ELSE /\ mutex' = Shutdown
            /\ pc' = SetAt(pc, Shutdown, "closeall_loop")
            /\ UNCHANGED <<activeConnections, procs>>
    /\ onlyExec' = [k \in Keys |-> FALSE]
    /\ sinceOpen' = [k \in Keys |-> FALSE]
    /\ story' = [k \in Keys |-> Unwatched]
    /\ UNCHANGED <<sockets, key, nested, cmd, ret, output, stale, due, callers, hosts>>

\* One iteration of the loop; after the last one the map is cleared and the
\* mutex unlocked.
CloseAllStep ==
    /\ pc[Shutdown] = "closeall_loop"
    /\ mutex = Shutdown
    /\ \E k \in todo, o \in Outcomes :
        /\ Possible(k, o)
        /\ sockets' = RemoveSocket(k)
        /\ todo' = todo \ {k}
        /\ IF todo' = {}
           THEN /\ activeConnections' = Clear
                /\ procs' = Collect(Unbind(TeardownProcs(k, o, "cleared"), k),
                                    Clear)
                /\ mutex' = NoTask
                /\ pc' = SetAt(pc, Shutdown, "done")
           ELSE /\ procs' = Collect(Unbind(TeardownProcs(k, o, "cleared"), k),
                                    activeConnections)
                /\ UNCHANGED <<activeConnections, mutex, pc>>
    /\ UNCHANGED <<key, nested, cmd, ret, output, stale, due, onlyExec, sinceOpen, story,
                   callers, hosts>>

\* ------------------------------------------------------------- termination
\* The masters that outlive the process: nothing holds them any more.
Abandon(ps) ==
    LET left == Those(ps, {p \in DOMAIN ps : Running(p)})
    IN  Each(left, [p \in DOMAIN left |-> [p EXCEPT !.hist = "abandoned"]])

\* The process receives a termination signal.  main makes the channel c and
\* starts the goroutine that waits on it, but never registers c with
\* signal.Notify: no signal is ever delivered to c, and the signal's default
\* action ends the process at once, whatever its tasks were doing.  The
\* registry, the mutex and the locals go with the process; the ssh masters
\* and the socket files stay.
Terminate ==
    /\ pc[Shutdown] # "exited"
    /\ pc' = [t \in Tasks |-> "exited"]
    /\ activeConnections' = Clear
    /\ mutex' = NoTask
    /\ procs' = Abandon(procs)
    /\ key' = [t \in Tasks |-> connectionKey("alice", "h1")]
    /\ nested' = [t \in Tasks |-> FALSE]
    /\ cmd' = [t \in Tasks |-> 0]
    /\ ret' = [t \in Tasks |-> "none"]
    /\ output' = [t \in Tasks |-> NoOutput]
    /\ stale' = [t \in Tasks |-> FALSE]
    /\ todo' = {}
    /\ due' = {}
    /\ onlyExec' = [k \in Keys |-> FALSE]
    /\ sinceOpen' = [k \in Keys |-> FALSE]
    /\ story' = [k \in Keys |-> Unwatched]
    /\ UNCHANGED <<sockets, callers, hosts>>

\* ------------------------------------------------------------- specification
Start(load) ==
    /\ activeConnections = [k \in Keys |-> NoRec]
    /\ mutex = NoTask
    /\ procs = [p \in {} |-> 0]
    /\ sockets = [k \in Keys |-> 0]
    /\ pc = [t \in Tasks |-> "idle"]
    /\ key = [t \in Tasks |-> connectionKey("alice", "h1")]
    /\ nested = [t \in Tasks |-> FALSE]
    /\ cmd = [t \in Tasks |-> 0]
    /\ ret = [t \in Tasks |-> "none"]
    /\ output = [t \in Tasks |-> NoOutput]
    /\ todo = {}
    /\ due = {}
    /\ stale = [t \in Tasks |-> FALSE]
    /\ onlyExec = [k \in Keys |-> TRUE]
    /\ sinceOpen = [k \in Keys |-> FALSE]
    /\ story = [k \in Keys |-> IF k \in load.watch THEN Fresh ELSE Unwatched]
    /\ callers = load.callers
    /\ hosts = load.hosts

\* NewSSHTunnelManager: an empty registry.  Two requests work on one host.
Init == Start(SameHost)

\* The same, for one request that works on two hosts.
InitHosts == Start(TwoHosts)

\* The same, for one request on one host whose calls are followed.
InitStory == Start(OneStory)

\* The same, for one request that works with any one accepted pair.
InitAccepted ==
    \E p \in Accepted : Start([callers |-> {"t1"}, hosts |-> {p}, watch |-> {}])

Next ==
    \/ Tick
    \/ \E p \in DOMAIN procs : ProcDies(p)
    \/ \E t \in callers, pair \in hosts : OpenConnection(t, pair)
    \/ \E t \in callers : ExecOpen(t)
    \/ \E t \in callers : OpenFinish(t)
    \/ \E t \in callers, pair \in hosts : ExecuteCommand(t, pair)
    \/ \E t \in callers : ExecRelock(t)
    \/ \E t \in callers : ExecRun(t)
    \/ \E t \in callers, pair \in hosts : CloseConnection(t, pair)
    \/ \E t \in callers : CloseFinish(t)
    \/ \E t \in callers, pair \in hosts : IsConnectionActive(t, pair)
    \/ \E t \in callers : IsActiveFinish(t)
    \/ \E t \in callers : GetActiveConnections(t)
    \/ CleanupStart
    \/ CleanupStep
    \/ CloseAllStart
    \/ CloseAllStep
    \/ Terminate

Spec == Init /\ [][Next]_vars

SpecHosts == InitHosts /\ [][Next]_vars

SpecStory == InitStory /\ [][Next]_vars

SpecAccepted == InitAccepted /\ [][Next]_vars

\* ------------------------------------------------------------- properties
Quiescent == \A t \in Tasks : pc[t] \in {"idle", "done"}

\* The masters started for k that the pool has not tried to terminate.
Kept(k) ==
    Those(RunningFor(k), {p \in DOMAIN procs :
        p.hist \in {"starting", "registered", "replaced", "dropped"}})

\* The processes started for k, but for those whose test command failed.
Established(k) ==
    Those(procs, {p \in DOMAIN procs : p.key = k /\ p.hist # "rejected"})

\* C1: in every reachable state and for every key, at most one master process
\* that the pool started is still running.  Stated here for the masters the
\* pool has not even tried to terminate, so that a Kill() without effect is
\* not what refutes it.
C1_AtMostOneMaster == \A k \in Keys : BagCardinality(Kept(k)) <= 1

C3_IdempotentReuse ==
    [][\A t \in Requests, pair \in Pairs :
        (OpenConnection(t, pair) /\ sinceOpen[connectionKey(pair[1], pair[2])]) =>
            /\ procs' = procs
            /\ sockets' = sockets
            /\ activeConnections' = Touch(connectionKey(pair[1], pair[2]))
            /\ pc'[t] = "idle"
            /\ ret'[t] = "open_ok"]_vars

\* C3's case: two OpenConnection calls on the one key both returned nil, and
\* the one process there is is the registered master.
C3_Witness ==
    /\ ret["t1"] = "open_ok" /\ ret["t2"] = "open_ok"
    /\ pc["t1"] = "idle" /\ pc["t2"] = "idle"
    /\ key["t1"] = key["t2"]
    /\ sinceOpen[key["t1"]]
    /\ IsActive(key["t1"])
    /\ BagCardinality(procs) = 1
    /\ \E p \in Cmd(key["t1"]) : Running(p)

\* The step in which the OpenConnection that ExecuteCommand called fails: the
\* test command failed, or cmd.Start() did.
ImplicitOpenFails(t) ==
    /\ nested[t]
    /\ pc'[t] # "exited"
    /\ \/ pc[t] = "open_establish" /\ pc'[t] # "open_establish"
                                   /\ Master(key[t]) \notin DOMAIN procs'
       \/ pc[t] = "exec_open" /\ pc'[t] \notin {"exec_open", "open_establish"}
                              /\ ~IsActive(key[t])

\* C4: ExecuteCommand on a key without an Active record calls OpenConnection
\* before running anything; when that OpenConnection fails, ExecuteCommand
\* returns the connect failure without running the command, and the failed
\* open leaves the registry as it was, with no Active record for the key.
C4_LazyConnect ==
    [][\A t \in Requests :
        /\ (\E pair \in Pairs : ExecuteCommand(t, pair)
                /\ ~IsActive(connectionKey(pair[1], pair[2])))
            => pc'[t] = "exec_open" /\ pool' = pool
        /\ ImplicitOpenFails(t) =>
            /\ pc'[t] = "idle"
            /\ ret'[t] = "connect_failed"
            /\ activeConnections' = activeConnections
            /\ ~activeConnections'[key[t]].Active]_vars

\* C4's case: an ExecuteCommand returned the connect failure after a failed
\* test command (whose master outlived the kill), and the key has no record.
C4_Witness ==
    \E t \in Requests :
        /\ pc[t] = "idle" /\ ret[t] = "connect_failed" /\ ~Exists(key[t])
        /\ \E p \in DOMAIN RunningFor(key[t]) : p.hist = "rejected"

\* C5: whenever no pool operation is in progress, every record in the
\* registry is Active.
C5_RegistryHoldsOnlyActive ==
    Quiescent => \A k \in Keys : Exists(k) => activeConnections[k].Active

\* C6: when IsConnectionActive's probe fails, it returns false and the
\* registry holds no record for the key afterwards.
C6_FailedProbeEvicts ==
    [][\A t \in Requests :
        (pc[t] = "isactive_probe" /\ ret'[t] = "false") =>
            ~activeConnections'[key[t]].Present]_vars

\* C7: when ExecuteCommand's command fails with no running master behind the
\* control socket, the record is gone from the registry afterwards.
C7_FailedExecEvicts ==
    [][\A t \in Requests :
        (pc[t] = "exec_run" /\ ret'[t] = "exec_failed" /\ ~Served(key[t])) =>
            ~activeConnections'[key[t]].Present]_vars

\* C8: ExecuteCommand never goes on to run its command over a record whose
\* master was already dead at its lookup: it detects the death, evicts the
\* record and establishes a fresh connection first.
C8_SelfHealing == \A t \in Requests : pc[t] = "exec_run" => ~stale[t]

\* A step in which a CloseConnection call returns.
CloseReturns(t) ==
    \/ pc[t] = "close_exit" /\ pc'[t] = "idle"
    \/ \E pair \in Pairs : CloseConnection(t, pair) /\ pc'[t] = "idle"

\* C9: CloseConnection, from any reachable state (on a key never opened, a
\* second time in a row, after a failed probe), returns nil and leaves no
\* record for the key in the registry.
C9_IdempotentClose ==
    [][\A t \in Requests :
        CloseReturns(t) =>
            ret'[t] = "close_ok" /\ ~activeConnections'[key'[t]].Present]_vars

\* C10: CloseConnection on a registered Active key removes the record and the
\* control socket whether the exit command succeeded, the kill was needed or
\* the kill had no effect.
C10_CloseAlwaysEvicts ==
    [][\A t \in Requests :
        (pc[t] = "close_exit" /\ pc'[t] = "idle") =>
            /\ ~activeConnections'[key[t]].Present
            /\ sockets'[key[t]] = 0
            /\ ret'[t] = "close_ok"]_vars

\* C10's case: a CloseConnection whose kill had no effect: the master it
\* tore down is still running, the record and the socket are gone.
C10_Witness ==
    \E t \in Requests :
        /\ pc[t] = "idle" /\ ret[t] = "close_ok"
        /\ ~Exists(key[t]) /\ sockets[key[t]] = 0
        /\ \E p \in DOMAIN RunningFor(key[t]) : p.hist = "closed"

\* C11: CloseConnection returns nil on every path, also when the exit command
\* and the kill both failed, and neither the idle reaper nor
\* CloseAllConnections, which return nothing, ever hands a result or an error
\* to its caller.
C11_CleanupNeverFails ==
    [][/\ \A t \in Requests : CloseReturns(t) => ret'[t] = "close_ok"
       /\ ret'[Reaper] = "none"
       /\ ret'[Shutdown] = "none"]_vars

\* C11's case: a CloseConnection and a reaper cycle have both returned after
\* an exit command and a kill without effect: both masters still run.
C11_Witness ==
    /\ pc[Reaper] = "idle"
    /\ \E t \in Requests : pc[t] = "idle" /\ ret[t] = "close_ok"
    /\ \E p, q \in DOMAIN procs :
        /\ Running(p) /\ p.hist = "closed"
        /\ Running(q) /\ q.hist = "reaped"


\* The step that ends a cycle of the idle reaper.
CycleEnds == pc[Reaper] = "cleanup_loop" /\ pc'[Reaper] = "idle"

\* C12: every record that was older than the idle timeout when a reaper
\* cycle took its `now`, Active or not, is out of the registry when the cycle
\* ends, and the control socket of its key is gone.
C12_IdleEviction ==
    [][CycleEnds =>
        \A k \in due : ~activeConnections'[k].Present /\ sockets'[k] = 0]_vars


\* The step in which CloseAllConnections returns.  It holds the mutex from its
\* call on and deletes nothing before it clears the map, so the records before
\* this step are those of the moment of the call.
CloseAllReturns == pc[Shutdown] # "done" /\ pc'[Shutdown] = "done"

\* C13: when CloseAllConnections returns the registry is empty, and for every
\* key that had a record when it was called no master started by the pool is
\* running and no control socket is left.
C13_ShutdownCompleteness ==
    [][CloseAllReturns =>
        /\ \A k \in Keys : ~activeConnections'[k].Present
        /\ \A k \in Keys : Exists(k) =>
            /\ \A p \in DOMAIN procs' : ~(p.key = k /\ Running(p))
            /\ sockets'[k] = 0]_vars


\* The step in which the process exits.
Exits == pc[Shutdown] # "exited" /\ pc'[Shutdown] = "exited"

\* C14: the process exits on a termination signal only after
\* CloseAllConnections has run and returned.
C14_ShutdownHook == [][Exits => pc[Shutdown] = "done"]_vars


\* C15: a task that is establishing a connection (the process is started,
\* the wait and the test command are still to come) does not hold the mutex,
\* so that an operation on another key, whose first step is to lock, can go
\* ahead.
C15_EstablishOutsideLock ==
    \A t \in Requests : pc[t] = "open_establish" => mutex # t

\* The positions at which a task waits for the external command of a
\* teardown or of a probe to return.
InExternalCall(t) ==
    pc[t] \in {"close_exit", "isactive_probe", "cleanup_loop", "closeall_loop"}

\* C16: the external commands of CloseConnection, of IsConnectionActive's
\* probe, of the idle reaper and of CloseAllConnections run with the mutex
\* not held, so that one that never returns blocks no operation on another
\* key.
C16_NoExternalCallUnderLock ==
    \A t \in Tasks : InExternalCall(t) => mutex # t


\* A step writes the entry of k: it changes more than the age that the clock
\* gives the record, or sets LastUsed anew.
Written(k) ==
    \/ [activeConnections'[k] EXCEPT !.Age = 0] # [activeConnections[k] EXCEPT !.Age = 0]
    \/ activeConnections'[k].Age < activeConnections[k].Age

\* The task is at a position between a Lock and its Unlock.
InLocked(t) ==
    pc[t] \in {"open_establish", "close_exit", "isactive_probe", "cleanup_loop",
               "closeall_loop", "panicked"}

\* C17: a task that is between Lock and Unlock holds the mutex, so no two
\* tasks are; and a step of the running process that writes the registry or
\* a record is taken either from a free mutex, by an operation that locks in
\* that step, or by the very task that holds the mutex.
C17_RegistryUnderLock ==
    /\ [](\A t \in Tasks : InLocked(t) => mutex = t)
    /\ [][((\E k \in Keys : Written(k)) /\ ~Exits) =>
            \/ mutex = NoTask
            \/ mutex \in Tasks /\ (pc'[mutex] # pc[mutex] \/ todo' # todo)]_vars

\* C17's case: one request is establishing a connection under the mutex
\* while the other has finished its lookup and waits to lock.
C17_Witness ==
    /\ pc["t1"] = "open_establish" /\ mutex = "t1"
    /\ pc["t2"] = "exec_open"


\* The step in which OpenConnection's test command fails.
ProbeFails(t) ==
    /\ pc[t] = "open_establish"
    /\ pc'[t] \notin {"open_establish", "exited"}
    /\ Master(key[t]) \notin DOMAIN procs'

\* C18: when OpenConnection's test command fails, the master it has just
\* started is running no more, the registry is as it was, and the call
\* returns an error.
C18_FailedProbeCleansUp ==
    [][\A t \in Requests : ProbeFails(t) =>
        /\ BagCardinality(Those(procs', {p \in DOMAIN procs' : Running(p)}))
            < BagCardinality(Those(procs, {p \in DOMAIN procs : Running(p)}))
        /\ activeConnections' = activeConnections
        /\ ret'[t] \in {"open_failed", "connect_failed"}]_vars


\* A step starts no process and adds no key to the registry.
NoCreation ==
    /\ BagCardinality(procs') <= BagCardinality(procs)
    /\ \A k \in Keys : Count(procs', NewProc(k)) <= Count(procs, NewProc(k))
    /\ \A k \in Keys : ~Exists(k) => ~activeConnections'[k].Present

\* C19: no step of CloseConnection, IsConnectionActive, GetActiveConnections,
\* the idle reaper or CloseAllConnections starts a master process or adds a
\* key to the registry.
C19_OnlyOpenCreates ==
    [][\/ NoCreation
       \/ ~(\/ \E t \in Requests, pair \in Pairs :
                CloseConnection(t, pair) \/ IsConnectionActive(t, pair)
            \/ \E t \in Requests :
                CloseFinish(t) \/ IsActiveFinish(t) \/ GetActiveConnections(t)
            \/ CleanupStart \/ CleanupStep \/ CloseAllStart \/ CloseAllStep)]_vars

\* C19's case: IsConnectionActive, CloseConnection and CloseAllConnections
\* have all returned on a key that was never opened: no record, no process.
C19_Witness ==
    /\ pc["t1"] = "idle" /\ ret["t1"] = "false"
    /\ pc["t2"] = "idle" /\ ret["t2"] = "close_ok"
    /\ pc[Shutdown] = "done"
    /\ \A k \in Keys : ~Exists(k)
    /\ procs = [p \in {} |-> 0]


\* C20: no step of a pool operation moves the LastUsed of a record that
\* stays registered back in time.  LastUsed is the clock minus the record's
\* age, and only Tick moves the clock: in any other step the age of a record
\* does not grow.
C20_LastUsedOnlyIncreases ==
    [][~Tick =>
        \A k \in Keys : (Exists(k) /\ activeConnections'[k].Present) =>
            activeConnections'[k].Age <= activeConnections[k].Age]_vars

\* C20's case: an ExecuteCommand found an Active record, set its LastUsed
\* under the lock and is about to run its command.
C20_Witness ==
    \E t \in Requests :
        /\ pc[t] = "exec_run" /\ ~nested[t]
        /\ IsActive(key[t]) /\ activeConnections[key[t]].Age = 0


\* How far an ExecuteCommand or OpenConnection call has come: the lookup, the
\* call of OpenConnection, the process started, the second lock, the command.
Stage == [idle |-> 0, exec_open |-> 1, open_establish |-> 2,
          exec_relock |-> 3, exec_run |-> 4]

\* C21: nothing is tried twice within one call.  A call moves forward only,
\* from the lookup to OpenConnection, to the one process it starts, to the
\* second lock and to the command, each at most once, or it ends (returns,
\* panics, or the process exits); and one step starts at most one process.
C21_NoRetry ==
    [][/\ \A t \in Requests :
            (pc[t] # "idle" /\ pc'[t] # pc[t]) =>
                \/ pc'[t] \in {"idle", "panicked", "exited"}
                \/ /\ pc[t] \in DOMAIN Stage /\ pc'[t] \in DOMAIN Stage
                   /\ Stage[pc'[t]] > Stage[pc[t]]
       /\ BagCardinality(procs') <= BagCardinality(procs) + 1]_vars

\* C21's case: one ExecuteCommand has returned the failure of its
\* OpenConnection and another the failure of its command, neither retried.
C21_Witness ==
    /\ pc["t1"] = "idle" /\ ret["t1"] = "connect_failed"
    /\ pc["t2"] = "idle" /\ ret["t2"] = "exec_failed"


\* C22: what ExecuteCommand returns when its command has run is what the
\* command gave, as it is: the error of a failed command with the output it
\* had written, never success and never without the output.
C22_FailureCarriesOutput ==
    [][\A t \in Requests :
        (pc[t] = "exec_run" /\ pc'[t] = "idle") =>
            \E r \in CommandResults(key[t]) :
                /\ ret'[t] = (IF r.failed THEN "exec_failed" ELSE "exec_ok")
                /\ output'[t] = r.out]_vars

\* C22's case: the remote command ran behind a live master and exited with
\* a non-zero status: the caller has the error and what the command wrote.
C22_Witness ==
    \E t \in Requests :
        /\ pc[t] = "idle" /\ ret[t] = "exec_failed"
        /\ output[t] = "stdout stderr"


\* A step in which an IsConnectionActive call of t returns.
IsActiveReturns(t) ==
    /\ pc'[t] = "idle"
    /\ \/ pc[t] = "isactive_probe"
       \/ \E pair \in Pairs : IsConnectionActive(t, pair)

\* C23: on a key on which nothing else acts, after OpenConnection returned
\* nil one connection has been established; the ExecuteCommand that succeeds
\* next has reused it; after the CloseConnection that follows,
\* IsConnectionActive returns false; and the ExecuteCommand that succeeds
\* after that went over a newly established connection, the second in all.
C23_ReopenAfterClose ==
    [][\A k \in Keys :
        /\ story'[k].stage \in {"opened", "used"} => story'[k].events = 1
        /\ \A t \in Requests :
            (story[k].stage = "closed" /\ IsActiveReturns(t) /\ key'[t] = k)
                => ret'[t] = "false"
        /\ (story[k].stage = "probed" /\ story'[k].stage = "done")
                => story'[k].events = 2]_vars

\* C23's case: the five calls have returned in this order on alice@h1, all
\* without error; the last one found no record and opened the connection anew.
C23_Witness ==
    /\ story[connectionKey("alice", "h1")].stage = "done"
    /\ story[connectionKey("alice", "h1")].events = 2
    /\ pc["t1"] = "idle" /\ ret["t1"] = "exec_ok"


\* C24: CloseConnection on a key that has no record, or a record that is not
\* Active, returns nil in that step and changes nothing: not the registry,
\* not a process, not a socket file, not the mutex.
C24_CloseOfNothing ==
    [][\A t \in Requests, pair \in Pairs :
        \/ IsActive(connectionKey(pair[1], pair[2]))
        \/ ~CloseConnection(t, pair)
        \/ /\ pc'[t] = "idle" /\ ret'[t] = "close_ok"
           /\ pool' = pool]_vars

\* C24's case: CloseConnection has returned nil on a record that a failed
\* probe had marked inactive: the record, its running master and the socket
\* are all still there.
C24_Witness ==
    \E t \in Requests :
        /\ pc[t] = "idle" /\ ret[t] = "close_ok"
        /\ Exists(key[t]) /\ ~IsActive(key[t])
        /\ Master(key[t]) \in DOMAIN procs
        /\ sockets[key[t]] = Bound


\* The sets of keys that the listing r is the listing of.
Listed(r) == {S \in SUBSET Keys : Listings[S] = r}

\* C25: what GetActiveConnections returns lists the keys of the records
\* that are Active in the state in which it holds the lock, those and no
\* other, and the call changes neither the registry nor a record, a process,
\* a socket or the mutex.
C25_SnapshotOfActive ==
    [][\A t \in Requests :
        \/ ~GetActiveConnections(t)
        \/ /\ Listed(ret'[t]) = {{k \in Keys : IsActive(k)}}
           /\ pool' = pool]_vars

\* C25's case: GetActiveConnections has returned the one key whose record
\* is Active while the registry holds a second record, which is not.
C25_Witness ==
    /\ pc["t1"] = "idle"
    /\ ret["t1"] = Listings[{connectionKey("alice", "h1")}]
    /\ IsActive(connectionKey("alice", "h1"))
    /\ Exists(connectionKey("bob", "h2"))
    /\ ~IsActive(connectionKey("bob", "h2"))


\* `filepath.Join(m.controlDir, fmt.Sprintf("ssh-%s.sock", key))`
controlPath(k) == "/tmp/docker-remote-ssh/ssh-" \o k \o ".sock"

\* The step removes the socket file of k.
Removed(k) == sockets[k] # 0 /\ sockets'[k] = 0

\* The step is the exit of a master by itself: no task moves.
MasterExits == pc' = pc /\ todo' = todo /\ procs' # procs

\* C26: the records of two keys never have the same control path; the socket
\* file of a key that has a record is removed only by the teardown of that
\* record (CloseConnection, the reaper or CloseAllConnections; the master
\* removing its own socket as it exits is no operation of the pool); and a
\* record does not leave the registry of the running process with its socket
\* file left behind.
C26_PathRemovedByTeardownOnly ==
    [][/\ \A k1, k2 \in Keys :
            (k1 # k2 /\ Exists(k1) /\ Exists(k2))
                => controlPath(k1) # controlPath(k2)
       /\ \A k \in Keys :
            /\ (Exists(k) /\ Removed(k)) =>
                \/ ~activeConnections'[k].Present
                \/ pc[Shutdown] = "closeall_loop"
                \/ MasterExits
            /\ (Exists(k) /\ ~activeConnections'[k].Present /\ ~Exits)
                => sockets'[k] = 0]_vars


\* C27: when ExecuteCommand has locked again after the OpenConnection it
\* called returned nil, the registry has a record for its key: the
\* `conn.LastUsed = time.Now()` that follows is never on a nil record.
C27_RelockFindsRecord ==
    [][\A t \in Requests :
        (pc[t] = "exec_relock" /\ pc'[t] \notin {"exec_relock", "exited"})
            => Exists(key[t]) /\ pc'[t] # "panicked"]_vars


\* The step is the teardown of the record of k by CloseConnection, by the
\* reaper or by CloseAllConnections: the exit command or the kill, and the
\* removal of the socket file.
TornDown(k) ==
    /\ ~Exits
    /\ \/ \E t \in Requests :
            pc[t] = "close_exit" /\ pc'[t] = "idle" /\ key[t] = k
       \/ pc[Reaper] = "cleanup_loop" /\ k \in todo \ todo'
       \/ pc[Shutdown] = "closeall_loop" /\ k \in todo \ todo'

\* C28: while a command of ExecuteCommand is in flight, from the unlock
\* with the record's control path to the return of the command, no step
\* tears down the record of its key.
C28_NoTeardownInFlight ==
    [][\A t \in Requests :
        (pc[t] = "exec_run" /\ pc'[t] = "exec_run") => ~TornDown(key[t])]_vars


\* C29: whenever no pool operation is in progress, a key without an Active
\* record has no running master that the pool started and no socket file.
C29_NoResourceOutlivesRecord ==
    Quiescent =>
        \A k \in Keys : ~IsActive(k) =>
            /\ BagCardinality(RunningFor(k)) = 0
            /\ sockets[k] = 0


\* The task is in a section that ends with an Unlock (deferred, or the one
\* after the teardown loop) and that locks nothing itself.
WillUnlock(t) ==
    pc[t] \in {"open_establish", "close_exit", "isactive_probe", "cleanup_loop",
               "closeall_loop"}

\* C30: the mutex is held only by a task that is on its way to the Unlock
\* of its operation: no path of an operation ends with the mutex held, and
\* no task that holds it is about to lock (ExecuteCommand calls
\* OpenConnection, and locks again, with the mutex released).
C30_DeadlockFree == \A t \in Tasks : mutex = t => WillUnlock(t)


\* The step in which the test command of t's OpenConnection succeeds: the
\* master just started answers on the socket, and the call returns nil.
ProbeSucceeds(t) ==
    /\ pc[t] = "open_establish"
    /\ Master(key[t]) \in DOMAIN procs' /\ sockets'[key[t]] = Bound
    /\ \/ pc'[t] = "idle" /\ ret'[t] = "open_ok"
       \/ pc'[t] = "exec_relock"

\* The step puts a record under k, or makes the record of k Active.
Inserted(k) ==
    /\ activeConnections'[k].Present
    /\ \/ ~Exists(k)
       \/ activeConnections'[k].Active /\ ~activeConnections[k].Active

\* C31: a record enters the registry, or becomes Active, only in the step in
\* which the test command of an OpenConnection on its key succeeded, and it
\* is then Active with LastUsed = now; a failed test command leaves the
\* registry as it was, and no other operation inserts a record.
C31_RegisteredAfterProbe ==
    [][/\ \A k \in Keys :
            \/ ~Inserted(k)
            \/ /\ \E t \in Requests : ProbeSucceeds(t) /\ key[t] = k
               /\ activeConnections'[k].Active
               /\ activeConnections'[k].Age = 0
       /\ \A t \in Requests :
            ProbeFails(t) => activeConnections' = activeConnections]_vars

\* C31's case: of two OpenConnection calls on the key, the test command of
\* one failed and registered nothing, and that of the other succeeded: the
\* record is Active, just used, and its master answers on the socket.
C31_Witness ==
    /\ pc["t1"] = "idle" /\ ret["t1"] = "open_failed"
    /\ pc["t2"] = "idle" /\ ret["t2"] = "open_ok"
    /\ IsActive(key["t2"]) /\ activeConnections[key["t2"]].Age = 0
    /\ Master(key["t2"]) \in DOMAIN procs
    /\ sockets[key["t2"]] = Bound


\* The record of k is one that a failed probe of IsConnectionActive marked:
\* it is in the map with `Active` false.
KnownDead(k) == Exists(k) /\ ~activeConnections[k].Active

\* The step of t starts a new master for k, whose test command is to come.
StartsFresh(t, k) ==
    /\ pc'[t] = "open_establish"
    /\ Count(procs, NewProc(k)) = 0
    /\ Count(procs', NewProc(k)) = 1

\* C32: a record is marked dead only by an IsConnectionActive whose probe
\* failed and that returns false; the OpenConnection that finds such a record
\* (called by a handler or by ExecuteCommand) does not return nil on it: it
\* starts a new master, or fails at cmd.Start(); the ExecuteCommand that finds
\* it runs no command on it and calls OpenConnection; and a master that was
\* started is probed before the call goes on.
C32_FreshAfterFailedProbe ==
    [][/\ \A k \in Keys :
            (IsActive(k) /\ activeConnections'[k].Present
                         /\ ~activeConnections'[k].Active)
                => \E t \in Requests :
                    /\ pc[t] = "isactive_probe" /\ key[t] = k
                    /\ pc'[t] = "idle" /\ ret'[t] = "false"
       /\ \A t \in Requests, pair \in Pairs :
            LET k == connectionKey(pair[1], pair[2]) IN
            \/ ~KnownDead(k)
            \/ /\ (OpenConnection(t, pair) \/ (ExecOpen(t) /\ key[t] = k)) =>
                    /\ activeConnections' = activeConnections
                    /\ \/ StartsFresh(t, k)
                       \/ /\ pc'[t] = "idle"
                          /\ ret'[t] \in {"open_failed", "connect_failed"}
               /\ ExecuteCommand(t, pair) =>
                    /\ pc'[t] = "exec_open"
                    /\ pool' = pool
       /\ \A t \in Requests :
            (pc[t] = "open_establish" /\ pc'[t] # "open_establish")
                => ProbeSucceeds(t) \/ ProbeFails(t) \/ Exits]_vars

\* C32's case: IsConnectionActive has returned false after a failed probe,
\* the dead record is still in the map, and the ExecuteCommand that came next
\* has started a new master for the key.
C32_Witness ==
    /\ pc["t1"] = "idle" /\ ret["t1"] = "false"
    /\ pc["t2"] = "open_establish" /\ nested["t2"] /\ key["t2"] = key["t1"]
    /\ KnownDead(key["t1"])
    /\ Count(procs, NewProc(key["t1"])) = 1


\* A step of CleanupIdleConnections: its lock and `now`, or one iteration.
ReaperSteps ==
    /\ ~Exits
    /\ \/ pc[Reaper] = "idle" /\ pc'[Reaper] = "cleanup_loop"
       \/ pc[Reaper] = "cleanup_loop" /\ (todo' # todo \/ pc'[Reaper] = "idle")

\* The processes of ps that were started for k.
ProcsOf(ps, k) == Those(ps, {p \in DOMAIN ps : p.key = k})

\* The keys whose record is over the idle timeout at the `now` of the cycle
\* that this step belongs to.
OverTimeout ==
    IF pc[Reaper] = "idle"
    THEN {k \in Keys : Exists(k) /\ activeConnections[k].Age > IdleTimeout}
    ELSE due

\* C33: a step of a reaper cycle leaves alone every key whose record was not
\* over the idle timeout at the cycle's `now`: the record stays in the
\* registry with its fields, and the processes and the socket file of the
\* key are as they were.
C33_ReaperSparesFresh ==
    [][ReaperSteps =>
        \A k \in Keys \ OverTimeout :
            /\ activeConnections'[k] = activeConnections[k]
            /\ ProcsOf(procs', k) = ProcsOf(procs, k)
            /\ sockets'[k] = sockets[k]]_vars

\* C33's case: a reaper cycle has ended that tore down the idle record of
\* alice@h1 (its master outlived the kill), and the record of bob@h2, which
\* was not idle, is still Active with its master and its socket.
C33_Witness ==
    /\ pc[Reaper] = "idle"
    /\ ~Exists(connectionKey("alice", "h1"))
    /\ \E p \in DOMAIN procs :
        p.key = connectionKey("alice", "h1") /\ p.hist = "reaped"
    /\ IsActive(connectionKey("bob", "h2"))
    /\ activeConnections[connectionKey("bob", "h2")].Age <= IdleTimeout
    /\ Master(connectionKey("bob", "h2")) \in DOMAIN procs
    /\ sockets[connectionKey("bob", "h2")] = Bound


\* C34: an IsConnectionActive whose probe succeeds returns true and changes
\* no record, no process and no socket file; and no step of
\* IsConnectionActive, on any path, sets the LastUsed of a record: a record
\* that is over the idle timeout stays so through any number of status checks.
C34_ProbeDoesNotTouch ==
    [][\A t \in Requests :
        /\ (pc[t] = "isactive_probe" /\ pc'[t] = "idle" /\ ret'[t] = "true") =>
            /\ activeConnections' = activeConnections
            /\ procs' = procs
            /\ sockets' = sockets
        /\ (pc[t] = "isactive_probe" /\ pc'[t] = "idle") =>
            \A k \in Keys : activeConnections'[k].Age = activeConnections[k].Age
        /\ \/ ~(\E pair \in Pairs : IsConnectionActive(t, pair))
           \/ activeConnections' = activeConnections]_vars

\* C34's case: IsConnectionActive has just returned true on a record that
\* is over the idle timeout: the next reaper cycle will close it.
C34_Witness ==
    \E t \in Requests :
        /\ pc[t] = "idle" /\ ret[t] = "true"
        /\ IsActive(key[t])
        /\ activeConnections[key[t]].Age > IdleTimeout
        /\ Master(key[t]) \in DOMAIN procs


\* The step in which a cycle of the idle reaper begins.
CycleBegins == pc[Reaper] = "idle" /\ pc'[Reaper] = "cleanup_loop"

\* C35: the reaper's loop has no exit while the process runs (it is between
\* two cycles or in one), and once CloseAllConnections has returned no
\* further cycle begins.
C35_ReaperStopsAtTeardown ==
    [][/\ pc'[Reaper] \in {"idle", "cleanup_loop", "exited"}
       /\ CycleBegins => pc[Shutdown] # "done"]_vars


\* C36: once CloseAllConnections has returned, no step of the running
\* process starts a master or puts a record into the registry.
C36_NothingAfterShutdown ==
    [][pc[Shutdown] = "done" =>
        \A k \in Keys :
            /\ ~Inserted(k)
            /\ Count(procs', NewProc(k)) <= Count(procs, NewProc(k))]_vars


\* C37: connectionKey gives the pair that the requests work with a key that
\* it gives to no other pair a handler accepts: under the key of an accepted
\* pair that no request has named there is never a record, and at its
\* control path never a socket file.
C37_KeyInjective ==
    \A q \in Accepted \ hosts :
        /\ ~Exists(connectionKey(q[1], q[2]))
        /\ sockets[connectionKey(q[1], q[2])] = 0

=============================================================================
